---- MODULE Spec2Model ----
(***************************************************************************)
(* State-machine model of GestureRecognizer (src/gesture_recognizer.py):   *)
(* a bounded position history, a cooldown counter and the four operations  *)
(* update, detectSwipe, detectPush and detectPull.  One action per method. *)
(* last_call records the method called last, its arguments and how it      *)
(* ended.  Two history variables, kept only when traced is TRUE, record    *)
(* what the program itself forgets: arrivals, every present position       *)
(* handed to update so far, and ticks, the update calls made since the     *)
(* last successful detection.                                              *)
(***************************************************************************)
EXTENDS Integers, Naturals, Sequences, FiniteSets, TLC

VARIABLES position_history, gesture_cooldown, last_gesture, history_size,
          last_call, traced, arrivals, ticks

vars == <<position_history, gesture_cooldown, last_gesture, history_size,
          last_call, traced, arrivals, ticks>>

----------------------------------------------------------------------------
(* Program constants *)

\* self.cooldown_frames = 15
cooldown_frames == 15

\* the literal 5 of `len(self.position_history) < 5` in the three detectors
MinSamples == 5

\* default threshold of detectSwipe
SwipeThreshold == 100

\* default threshold of detectPush and detectPull
PushThreshold == 150

(* Bounds of the model *)

\* the largest history_size a recognizer is constructed with
MaxHistorySize == 5

\* history sizes tried: one below the detectors' minimum, and the largest
HistorySizes == {MinSamples - 1, MaxHistorySize}

\* present positions handed to update in a traced run: enough to overflow
\* the largest history twice
MaxArrivals == MaxHistorySize + 2

\* positions the tracker hands to update: the origin, a diagonal step and
\* far points right of, below and above the origin
Points == {<<0, 0>>, <<50, 50>>, <<200, 0>>, <<0, 200>>, <<0, -200>>}

\* positions of a traced run
TracePoints == {<<0, 0>>, <<200, 0>>, <<0, 200>>}

\* Python's None as the position argument of update
NoPosition == <<>>

\* Python's None as the value of last_gesture
NoGesture == "None"

\* thresholds the detectors are called with: zero, a small one, the two
\* defaults and one equal to the largest single-axis displacement
Thresholds == {0, 50, SwipeThreshold, PushThreshold, 200}

\* direction arguments of detectSwipe
Directions == {"any", "left", "right", "up", "down"}

----------------------------------------------------------------------------
(* Helpers *)

Abs(n) == IF n < 0 THEN -n ELSE n

\* update taking the origin for "no detection"
TruthyNonZero(position) == position # NoPosition /\ position # <<0, 0>>

\* update taking every argument, None included, for a position
TruthyAlways(position) == TRUE

\* truth value of `if position:`: None is false, every 2-tuple is true
Truthy(position) == position # NoPosition

\* a deque that evicts one append too late and so holds n + 1 entries
DequeAppendOffByOne(h, p, n) ==
    IF n = 0 THEN h
    ELSE IF Len(h) > n THEN Append(Tail(h), p)
    ELSE Append(h, p)

\* a full deque dropping the arriving position instead of the oldest one
DequeAppendDropNewest(h, p, n) ==
    IF n = 0 THEN h
    ELSE IF Len(h) >= n THEN h
    ELSE Append(h, p)

\* deque(maxlen=n).append(p): append on the right, drop the leftmost when full
DequeAppend(h, p, n) ==
    IF n = 0 THEN h
    ELSE IF Len(h) >= n THEN Append(Tail(h), p)
    ELSE Append(h, p)

\* the detectors without the early return
TooFewSamplesNever(h) == FALSE

\* the detectors asking for one sample fewer
TooFewSamplesOffByOne(h) == Len(h) < MinSamples - 1

\* `len(self.position_history) < 5`: the early return of every detector
TooFewSamples(h) == Len(h) < MinSamples

\* position_history[0] and position_history[-1] raise IndexError on an
\* empty deque
IndexRaises(h) == Len(h) = 0

\* start = position_history[0], end = position_history[-1]
Start(h) == h[1]
End(h) == h[Len(h)]

\* dx = end[0] - start[0], dy = end[1] - start[1]
Dx(h) == End(h)[1] - Start(h)[1]
Dy(h) == End(h)[2] - Start(h)[2]

\* detectSwipe turning down a distance equal to the threshold
DistanceBelowInclusive(dx, dy, threshold) ==
    threshold > 0 /\ dx * dx + dy * dy <= threshold * threshold

\* `np.sqrt(dx**2 + dy**2) < threshold`: the square root of a natural number
\* is below a positive integer threshold exactly when the number is below
\* its square, and is below no threshold that is zero or negative (float64
\* rounding cannot move the root across an integer for pixel coordinates:
\* that takes a threshold above 2^26)
DistanceBelow(dx, dy, threshold) ==
    threshold > 0 /\ dx * dx + dy * dy < threshold * threshold

\* detectSwipe with the vertical labels exchanged
DetectedDirectionFlipped(dx, dy) ==
    IF Abs(dx) > Abs(dy)
    THEN (IF dx > 0 THEN "right" ELSE "left")
    ELSE (IF dy > 0 THEN "up" ELSE "down")

\* detectSwipe giving a tie to the horizontal axis
DetectedDirectionTieHorizontal(dx, dy) ==
    IF Abs(dx) >= Abs(dy)
    THEN (IF dx > 0 THEN "right" ELSE "left")
    ELSE (IF dy > 0 THEN "down" ELSE "up")

\* the axis classification of detectSwipe
DetectedDirection(dx, dy) ==
    IF Abs(dx) > Abs(dy)
    THEN (IF dx > 0 THEN "right" ELSE "left")
    ELSE (IF dy > 0 THEN "down" ELSE "up")

\* detectSwipe ignoring the direction it was asked for
DirectionMatchesAlways(direction, detected) == TRUE

\* `direction == 'any' or direction == detected_direction`
DirectionMatches(direction, detected) ==
    direction = "any" \/ direction = detected

\* the detectors without the cooldown gate
CooldownReadyAlways(cd) == TRUE

\* `self.gesture_cooldown == 0`: the gate of every detector
CooldownReady(cd) == cd = 0

\* what detectSwipe returns ("None" for None)
SwipeReturn(h, cd, direction, threshold) ==
    IF TooFewSamples(h) THEN "None"
    ELSE IF IndexRaises(h) THEN "IndexError"
    ELSE IF DistanceBelow(Dx(h), Dy(h), threshold) THEN "None"
    ELSE LET detected == DetectedDirection(Dx(h), Dy(h))
         IN  IF DirectionMatches(direction, detected) /\ CooldownReady(cd)
             THEN detected
             ELSE "None"

\* detectPush reading the horizontal displacement
PushDisplacementHorizontal(h, threshold) == Dx(h) > threshold

\* `dy > threshold` of detectPush
PushDisplacement(h, threshold) == Dy(h) > threshold

\* detectPull reading the horizontal displacement
PullDisplacementHorizontal(h, threshold) == (End(h)[1] - Start(h)[1]) < -threshold

\* `dx = end[1] - start[1]; dx < -threshold` of detectPull
PullDisplacement(h, threshold) == (End(h)[2] - Start(h)[2]) < -threshold

\* what detectPush returns
PushReturn(h, cd, threshold) ==
    IF TooFewSamples(h) THEN "False"
    ELSE IF IndexRaises(h) THEN "IndexError"
    ELSE IF PushDisplacement(h, threshold) /\ CooldownReady(cd) THEN "True"
    ELSE "False"

\* what detectPull returns
PullReturn(h, cd, threshold) ==
    IF TooFewSamples(h) THEN "False"
    ELSE IF IndexRaises(h) THEN "IndexError"
    ELSE IF PullDisplacement(h, threshold) /\ CooldownReady(cd) THEN "True"
    ELSE "False"

\* the cooldown reset moved out of the success branch
CooldownAfterAlwaysReset(cd, succeeded) == cooldown_frames

\* a success that leaves the cooldown alone
CooldownAfterNoReset(cd, succeeded) == cd

\* `self.gesture_cooldown = self.cooldown_frames` on success
CooldownAfter(cd, succeeded) == IF succeeded THEN cooldown_frames ELSE cd

\* a detection that clears the history it fired on
HistoryAfterDetectCleared(h, succeeded) == IF succeeded THEN <<>> ELSE h

\* the history a detector leaves: no detector appends to, removes from or
\* clears position_history
HistoryAfterDetect(h, succeeded) == h

\* a detection that stores the label it reports
LastGestureAfterStored(lg, succeeded, label) == IF succeeded THEN label ELSE lg

\* last_gesture after a detector call: set to None by __init__ and assigned
\* by no method, also not on the success branch
LastGestureAfter(lg, succeeded, label) == lg

\* names bound at module level of gesture_recognizer.py
ModuleGlobals == {"np", "deque", "Tuple", "Optional", "GestureRecognizer"}

\* `if gesture_cooldown > 0:` reads a bare name: it is no local of update, so
\* the lookup goes to the module globals and the builtins and raises
\* NameError when the name is bound in neither
UpdateRaises == "gesture_cooldown" \notin ModuleGlobals

\* update decrementing without the test for a positive cooldown
CooldownAfterUpdateNoFloor(cd) == cd - 1

\* the cooldown an update call leaves: the decrement of line 19 is reached
\* only when the test of line 18 did not raise
CooldownAfterUpdate(cd) ==
    IF UpdateRaises THEN cd
    ELSE IF cd > 0 THEN cd - 1 ELSE cd

\* update calls since the last successful detection, counted up to
\* cooldown_frames
TicksAfterUpdate(t) == IF t < cooldown_frames THEN t + 1 ELSE t

Call(op, position, direction, threshold, ret) ==
    [op |-> op, position |-> position, direction |-> direction,
     threshold |-> threshold, ret |-> ret]

----------------------------------------------------------------------------
(* The state machine *)

\* GestureRecognizer.__init__
Construct ==
    /\ history_size \in HistorySizes
    /\ position_history = <<>>
    /\ last_gesture = NoGesture
    /\ gesture_cooldown = 0
    /\ arrivals = <<>>
    /\ ticks = cooldown_frames
    /\ last_call = Call("init", NoPosition, "any", 0, "None")

Init == Construct /\ traced = FALSE

InitTrace == Construct /\ traced = TRUE

\* GestureRecognizer.update
Update(position) ==
    /\ ~(traced /\ Truthy(position) /\ Len(arrivals) >= MaxArrivals)
    /\ position_history' =
          IF Truthy(position)
          THEN DequeAppend(position_history, position, history_size)
          ELSE position_history
    /\ gesture_cooldown' = CooldownAfterUpdate(gesture_cooldown)
    /\ last_call' = Call("update", position, "any", 0,
                         IF UpdateRaises THEN "NameError" ELSE "None")
    /\ arrivals' = IF traced /\ Truthy(position)
                   THEN Append(arrivals, position) ELSE arrivals
    /\ ticks' = IF traced THEN TicksAfterUpdate(ticks) ELSE ticks
    /\ UNCHANGED <<last_gesture, history_size, traced>>

\* GestureRecognizer.detectSwipe
DetectSwipe(direction, threshold) ==
    LET ret == SwipeReturn(position_history, gesture_cooldown, direction, threshold)
        succeeded == ret \notin {"None", "IndexError"}
    IN  /\ gesture_cooldown' = CooldownAfter(gesture_cooldown, succeeded)
        /\ position_history' = HistoryAfterDetect(position_history, succeeded)
        /\ last_gesture' = LastGestureAfter(last_gesture, succeeded, ret)
        /\ last_call' = Call("detectSwipe", NoPosition, direction, threshold, ret)
        /\ ticks' = IF traced /\ succeeded THEN 0 ELSE ticks
        /\ UNCHANGED <<history_size, traced, arrivals>>

\* GestureRecognizer.detectPush
DetectPush(threshold) ==
    LET ret == PushReturn(position_history, gesture_cooldown, threshold)
        succeeded == ret = "True"
    IN  /\ gesture_cooldown' = CooldownAfter(gesture_cooldown, succeeded)
        /\ position_history' = HistoryAfterDetect(position_history, succeeded)
        /\ last_gesture' = LastGestureAfter(last_gesture, succeeded, "push")
        /\ last_call' = Call("detectPush", NoPosition, "any", threshold, ret)
        /\ ticks' = IF traced /\ succeeded THEN 0 ELSE ticks
        /\ UNCHANGED <<history_size, traced, arrivals>>

\* GestureRecognizer.detectPull
DetectPull(threshold) ==
    LET ret == PullReturn(position_history, gesture_cooldown, threshold)
        succeeded == ret = "True"
    IN  /\ gesture_cooldown' = CooldownAfter(gesture_cooldown, succeeded)
        /\ position_history' = HistoryAfterDetect(position_history, succeeded)
        /\ last_gesture' = LastGestureAfter(last_gesture, succeeded, "pull")
        /\ last_call' = Call("detectPull", NoPosition, "any", threshold, ret)
        /\ ticks' = IF traced /\ succeeded THEN 0 ELSE ticks
        /\ UNCHANGED <<history_size, traced, arrivals>>

UpdateStep == \E position \in Points \cup {NoPosition} : Update(position)
DetectSwipeStep == \E direction \in Directions, threshold \in Thresholds :
                       DetectSwipe(direction, threshold)
DetectPushStep == \E threshold \in Thresholds : DetectPush(threshold)
DetectPullStep == \E threshold \in Thresholds : DetectPull(threshold)

Next ==
    \/ UpdateStep
    \/ DetectSwipeStep
    \/ DetectPushStep
    \/ DetectPullStep

Spec == Init /\ [][Next]_vars

\* the frame loop of a traced run: one of a few positions or none per tick,
\* the detectors called with their default arguments
TraceUpdateStep == \E position \in TracePoints \cup {NoPosition} : Update(position)
TraceSwipeStep == DetectSwipe("any", SwipeThreshold)
TracePushStep == DetectPush(PushThreshold)
TracePullStep == DetectPull(PushThreshold)

NextTrace ==
    \/ TraceUpdateStep
    \/ TraceSwipeStep
    \/ TracePushStep
    \/ TracePullStep

SpecTrace == InitTrace /\ [][NextTrace]_vars

----------------------------------------------------------------------------
(* Properties *)

IsDetector(c) == c.op \in {"detectSwipe", "detectPush", "detectPull"}
Succeeded(c) == IsDetector(c) /\ c.ret \in {"left", "right", "up", "down", "True"}
Negative(c) == (c.op = "detectSwipe" /\ c.ret = "None")
               \/ (c.op \in {"detectPush", "detectPull"} /\ c.ret = "False")

\* C1: every update call, with or without a position, lowers gesture_cooldown
\* by exactly 1 when it is above 0 and leaves it at 0 when it is 0.
C1_UpdateDecrementsCooldown ==
    [][last_call'.op = "update" =>
           gesture_cooldown' = (IF gesture_cooldown > 0
                                THEN gesture_cooldown - 1 ELSE 0)]_vars

\* C2: after a successful detection every detector call is negative until
\* cooldown_frames update calls have been made; once they have been made
\* gesture_cooldown is 0 again.
C2_CooldownOverAfterFrames ==
    IF ticks < 15 THEN gesture_cooldown > 0 ELSE gesture_cooldown = 0

\* C3: a detector reports success only when gesture_cooldown is 0 in the
\* state it is called in; with gesture_cooldown > 0 all three detectors
\* return None/False whatever the history, direction and threshold.
C3_SuccessOnlyAtZeroCooldown ==
    [][IsDetector(last_call') =>
           /\ (Succeeded(last_call') => gesture_cooldown = 0)
           /\ (gesture_cooldown > 0 => Negative(last_call'))]_vars

\* a swipe call with enough samples, enough distance and direction 'any'
\* that was turned down by the cooldown alone
C3_Witness ==
    /\ last_call.op = "detectSwipe" /\ last_call.direction = "any"
    /\ last_call.ret = "None"
    /\ gesture_cooldown > 0
    /\ Len(position_history) >= 5
    /\ position_history[1] = <<0, 0>>
    /\ position_history[Len(position_history)] = <<200, 0>>
    /\ last_call.threshold = 100

\* C4: right after a successful detector call gesture_cooldown equals
\* cooldown_frames, and a detector call made next, with no update in
\* between, is negative although the history is the same.
C4_SecondCallNegative ==
    [][/\ (Succeeded(last_call') => gesture_cooldown' = 15)
       /\ (ticks = 0 /\ IsDetector(last_call') =>
               Negative(last_call') /\ position_history' = position_history)]_vars

\* history [(0,0),(0,0),(0,0),(0,0),(200,0)]: detectSwipe('any', 100) fired,
\* no update followed, and the next detectSwipe('any', 100) returned None
C4_Witness ==
    /\ ticks = 0
    /\ position_history = <<<<0, 0>>, <<0, 0>>, <<0, 0>>, <<0, 0>>, <<200, 0>>>>
    /\ last_call.op = "detectSwipe" /\ last_call.direction = "any"
    /\ last_call.threshold = 100
    /\ last_call.ret = "None"
    /\ gesture_cooldown = 15

\* C5: with fewer than 5 samples in the history detectSwipe returns None and
\* detectPush and detectPull return False, for every content, direction,
\* threshold and cooldown, and gesture_cooldown is left unchanged.
C5_FewSamplesNoGesture ==
    [][IsDetector(last_call') /\ Len(position_history) < 5 =>
           /\ Negative(last_call')
           /\ gesture_cooldown' = gesture_cooldown]_vars

\* four samples from (0,0) to (0,200): detectPush(150) returned False
C5_Witness ==
    /\ last_call.op = "detectPush" /\ last_call.threshold = 150
    /\ last_call.ret = "False"
    /\ Len(position_history) = 4
    /\ position_history[1] = <<0, 0>>
    /\ position_history[4] = <<0, 200>>
    /\ gesture_cooldown = 0

\* C6: the history length stays between 0 and history_size, and the history
\* is the last min(n, history_size) of the n present positions handed to
\* update, in arrival order (a full history loses its oldest entry).
C6_HistoryIsLastArrivals ==
    LET n == Len(arrivals)
        k == IF n < history_size THEN n ELSE history_size
    IN  /\ Len(position_history) >= 0
        /\ Len(position_history) <= history_size
        /\ position_history = [i \in 1..k |-> arrivals[n - k + i]]

\* an update with a present position arrived on a full history
C6_Witness ==
    /\ last_call.op = "update" /\ last_call.position # <<>>
    /\ Len(arrivals) = history_size + 2
    /\ Len(position_history) = history_size
    /\ arrivals[1] # arrivals[3]
    /\ position_history[1] = arrivals[3]
    /\ position_history[history_size] = last_call.position

\* C7: an update call with no position leaves the history as it is, in
\* length and content, also when the history is full.
C7_UpdateNoneKeepsHistory ==
    [][last_call'.op = "update" /\ last_call'.position = <<>> =>
           position_history' = position_history]_vars

\* update(None) was called on a full history
C7_Witness ==
    /\ last_call.op = "update" /\ last_call.position = <<>>
    /\ Len(position_history) = history_size

\* C8: a successful detectSwipe('any', threshold) returns right if
\* |dx| > |dy| and dx > 0, left if |dx| > |dy| and dx <= 0, down if
\* |dx| <= |dy| and dy > 0, up if |dx| <= |dy| and dy <= 0, with dx, dy the
\* newest sample minus the oldest.
C8_SwipeLabel ==
    last_call.op = "detectSwipe" /\ last_call.direction = "any"
        /\ last_call.ret # "None" =>
    LET oldest == position_history[1]
        newest == position_history[Len(position_history)]
        dx == newest[1] - oldest[1]
        dy == newest[2] - oldest[2]
        adx == IF dx < 0 THEN -dx ELSE dx
        ady == IF dy < 0 THEN -dy ELSE dy
    IN  /\ (adx > ady /\ dx > 0 => last_call.ret = "right")
        /\ (adx > ady /\ dx <= 0 => last_call.ret = "left")
        /\ (adx <= ady /\ dy > 0 => last_call.ret = "down")
        /\ (adx <= ady /\ dy <= 0 => last_call.ret = "up")

\* detectSwipe('any', 0) on a history that did not move returned up
C8_Witness ==
    /\ last_call.op = "detectSwipe" /\ last_call.direction = "any"
    /\ last_call.ret = "up"
    /\ position_history[1] = position_history[Len(position_history)]

C10_PushExactly ==
    [][last_call'.op = "detectPush" =>
       LET h == position_history
           fires == /\ Len(h) >= 5
                    /\ h[Len(h)][2] - h[1][2] > last_call'.threshold
                    /\ gesture_cooldown = 0
       IN  last_call'.ret = (IF fires THEN "True" ELSE "False")]_vars

\* start (0,0), end (0,200): detectPush(150) returned True
C10_Witness ==
    /\ last_call.op = "detectPush" /\ last_call.threshold = 150
    /\ last_call.ret = "True"
    /\ position_history[1] = <<0, 0>>
    /\ position_history[Len(position_history)] = <<0, 200>>

\* C11: detectPull(threshold) returns True exactly when the history has at
\* least 5 samples, newest.y - oldest.y < -threshold and gesture_cooldown is
\* 0: it reads the y displacement, never the x displacement; from (0,0) to
\* (0,200) with threshold 150 it returns False.
C11_PullExactly ==
    [][last_call'.op = "detectPull" =>
       LET h == position_history
           fires == /\ Len(h) >= 5
                    /\ h[Len(h)][2] - h[1][2] < -(last_call'.threshold)
                    /\ gesture_cooldown = 0
       IN  /\ last_call'.ret = (IF fires THEN "True" ELSE "False")
           /\ (Len(h) >= 5 /\ h[1] = <<0, 0>> /\ h[Len(h)] = <<0, 200>>
                 /\ last_call'.threshold = 150 => last_call'.ret = "False")]_vars

\* start (0,0), end (0,-200): detectPull(150) returned True
C11_Witness ==
    /\ last_call.op = "detectPull" /\ last_call.threshold = 150
    /\ last_call.ret = "True"
    /\ position_history[1] = <<0, 0>>
    /\ position_history[Len(position_history)] = <<0, -200>>

\* C12: gesture_cooldown is an integer between 0 and cooldown_frames in
\* every reachable state; no update or detector call lowers it by more than
\* 1, and it never goes below 0.
C12_CooldownRange ==
    [][/\ gesture_cooldown \in Int /\ gesture_cooldown' \in Int
       /\ 0 <= gesture_cooldown /\ gesture_cooldown <= 15
       /\ 0 <= gesture_cooldown' /\ gesture_cooldown' <= 15
       /\ gesture_cooldown' >= gesture_cooldown - 1]_vars

\* update was called while a cooldown was running
C12_Witness ==
    /\ last_call.op = "update"
    /\ gesture_cooldown > 0

\* C13: a detector call that returns a negative result leaves history and
\* gesture_cooldown unchanged, and the same call with the same arguments,
\* made again with no update in between, returns the same negative result.
C13_NegativeIsIdempotent ==
    [][/\ (IsDetector(last_call') /\ Negative(last_call') =>
               /\ position_history' = position_history
               /\ gesture_cooldown' = gesture_cooldown)
       /\ (Negative(last_call) /\ last_call'.op = last_call.op
             /\ last_call'.direction = last_call.direction
             /\ last_call'.threshold = last_call.threshold =>
               last_call'.ret = last_call.ret)]_vars

\* from (0,0) to (0,200) at cooldown 0: detectPull(150) returned False
C13_Witness ==
    /\ last_call.op = "detectPull" /\ last_call.threshold = 150
    /\ last_call.ret = "False"
    /\ gesture_cooldown = 0
    /\ Len(position_history) >= 5
    /\ position_history[1] = <<0, 0>>
    /\ position_history[Len(position_history)] = <<0, 200>>

\* C14: no detector call, successful or not, changes the history (length,
\* content, order); the only state a detector may change is
\* gesture_cooldown, and only on success.
C14_DetectorsKeepHistory ==
    [][IsDetector(last_call') =>
           /\ position_history' = position_history
           /\ last_gesture' = last_gesture
           /\ history_size' = history_size
           /\ (gesture_cooldown' # gesture_cooldown => Succeeded(last_call'))]_vars

\* detectPull fired on a full history of 5 samples, which is still there
C14_Witness ==
    /\ last_call.op = "detectPull" /\ last_call.ret = "True"
    /\ history_size = 5
    /\ Len(position_history) = 5

\* C15: no detector call ends in an error; too few samples, displacement
\* below the threshold, an active cooldown and a direction mismatch all give
\* the one negative value (None for detectSwipe, False for detectPush and
\* detectPull).
C15_NoErrorOneNegative ==
    [][IsDetector(last_call') =>
       LET h == position_history
           c == last_call'
           enough == Len(h) >= 5
           dx == h[Len(h)][1] - h[1][1]
           dy == h[Len(h)][2] - h[1][2]
           adx == IF dx < 0 THEN -dx ELSE dx
           ady == IF dy < 0 THEN -dy ELSE dy
           label == IF adx > ady THEN (IF dx > 0 THEN "right" ELSE "left")
                    ELSE (IF dy > 0 THEN "down" ELSE "up")
           cooling == gesture_cooldown > 0
       IN  /\ c.op = "detectSwipe" =>
                /\ c.ret \in {"None", "left", "right", "up", "down"}
                /\ (~enough => c.ret = "None")
                /\ (cooling => c.ret = "None")
                /\ (enough /\ c.threshold > 0
                      /\ dx * dx + dy * dy < c.threshold * c.threshold =>
                        c.ret = "None")
                /\ (enough /\ c.direction # "any" /\ c.direction # label =>
                        c.ret = "None")
           /\ c.op \in {"detectPush", "detectPull"} =>
                /\ c.ret \in {"True", "False"}
                /\ (~enough => c.ret = "False")
                /\ (cooling => c.ret = "False")
                /\ (enough /\ c.op = "detectPush" /\ dy <= c.threshold =>
                        c.ret = "False")
                /\ (enough /\ c.op = "detectPull" /\ dy >= -(c.threshold) =>
                        c.ret = "False")]_vars

\* from (0,0) to (50,50) at cooldown 0: detectSwipe('any', 100) returned None
\* because the distance is below the threshold
C15_Witness ==
    /\ last_call.op = "detectSwipe" /\ last_call.direction = "any"
    /\ last_call.threshold = 100
    /\ last_call.ret = "None"
    /\ gesture_cooldown = 0
    /\ Len(position_history) >= 5
    /\ position_history[1] = <<0, 0>>
    /\ position_history[Len(position_history)] = <<50, 50>>

\* C16: a detectSwipe call whose direction is neither 'any' nor the detected
\* direction returns None and leaves gesture_cooldown unchanged, so a
\* detectSwipe call that follows it on the same history with the matching
\* direction or 'any' succeeds when gesture_cooldown is 0.
C16_MismatchKeepsCooldown ==
    [][last_call'.op = "detectSwipe" /\ Len(position_history) >= 5 =>
       LET h == position_history
           dx == h[Len(h)][1] - h[1][1]
           dy == h[Len(h)][2] - h[1][2]
           adx == IF dx < 0 THEN -dx ELSE dx
           ady == IF dy < 0 THEN -dy ELSE dy
           label == IF adx > ady THEN (IF dx > 0 THEN "right" ELSE "left")
                    ELSE (IF dy > 0 THEN "down" ELSE "up")
           far(t) == dx * dx + dy * dy >= t * t
           Mismatch(c) == /\ c.op = "detectSwipe"
                          /\ c.direction \notin {"any", label}
                          /\ far(c.threshold)
       IN  /\ (Mismatch(last_call') =>
                   /\ last_call'.ret = "None"
                   /\ gesture_cooldown' = gesture_cooldown)
           /\ (Mismatch(last_call) /\ gesture_cooldown = 0
                 /\ last_call'.direction \in {"any", label}
                 /\ last_call'.threshold = last_call.threshold =>
                   /\ last_call'.ret = label
                   /\ gesture_cooldown' = 15)]_vars

\* from (0,0) to (200,0) at cooldown 0: detectSwipe('left', 100) returned
\* None and the cooldown is still 0
C16_Witness ==
    /\ last_call.op = "detectSwipe" /\ last_call.direction = "left"
    /\ last_call.threshold = 100
    /\ last_call.ret = "None"
    /\ gesture_cooldown = 0
    /\ Len(position_history) >= 5
    /\ position_history[1] = <<0, 0>>
    /\ position_history[Len(position_history)] = <<200, 0>>

\* C17: with at least 5 samples, cooldown 0, direction 'any' and a
\* threshold >= 0, detectSwipe succeeds exactly when
\* dx*dx + dy*dy >= threshold*threshold; detectPush and detectPull are
\* strict: a y displacement equal to threshold (-threshold) does not fire.
C17_ThresholdBoundaries ==
    [][IsDetector(last_call') /\ Len(position_history) >= 5
         /\ gesture_cooldown = 0 /\ last_call'.threshold >= 0 =>
       LET h == position_history
           c == last_call'
           dx == h[Len(h)][1] - h[1][1]
           dy == h[Len(h)][2] - h[1][2]
       IN  /\ (c.op = "detectSwipe" /\ c.direction = "any" =>
                   ((c.ret # "None") <=>
                        (dx * dx + dy * dy >= c.threshold * c.threshold)))
           /\ (c.op = "detectPush" /\ dy = c.threshold => c.ret = "False")
           /\ (c.op = "detectPull" /\ dy = -(c.threshold) => c.ret = "False")]_vars

\* from (0,0) to (200,0): detectSwipe('any', 200) fired on a distance equal
\* to the threshold
C17_Witness ==
    /\ last_call.op = "detectSwipe" /\ last_call.direction = "any"
    /\ last_call.threshold = 200
    /\ last_call.ret = "right"
    /\ position_history[1] = <<0, 0>>
    /\ position_history[Len(position_history)] = <<200, 0>>

\* C18 as claimed: after a successful detector call last_gesture is the
\* label that call reported, and last_gesture is None only while no gesture
\* has been reported.
C18_LastGestureIsLabel ==
    /\ (Succeeded(last_call) /\ last_call.op = "detectSwipe" =>
            last_gesture = last_call.ret)
    /\ (Succeeded(last_call) => last_gesture # "None")
    /\ (gesture_cooldown > 0 => last_gesture # "None")

\* C18 as amended: last_gesture is None in every reachable state; no update
\* and no detector call assigns it, also not a successful one.
C18_LastGestureStaysNone == last_gesture = "None"

\* detectSwipe reported right and last_gesture is still None
C18_Witness ==
    /\ last_call.op = "detectSwipe" /\ last_call.ret = "right"
    /\ gesture_cooldown = 15
    /\ last_gesture = "None"

C20_SmallHistoryNeverFires ==
    history_size < 5 =>
        /\ Len(position_history) < 5
        /\ ~Succeeded(last_call)
        /\ gesture_cooldown = 0

\* history_size 4, full history from (0,0) to (200,0): detectSwipe('any', 100)
\* returned None
C20_Witness ==
    /\ history_size = 4
    /\ Len(position_history) = 4
    /\ position_history[1] = <<0, 0>>
    /\ position_history[4] = <<200, 0>>
    /\ last_call.op = "detectSwipe" /\ last_call.direction = "any"
    /\ last_call.threshold = 100
    /\ last_call.ret = "None"
    /\ gesture_cooldown = 0

====
